---- MODULE Spec2Model ----
(***************************************************************************)
(* Model of src/app.py: the EC2 / S3 usage dashboard script.  One run of   *)
(* the script is a straight-line pipeline                                  *)
(*     load -> clean -> outliers -> sidebar -> filter -> compute ->        *)
(*     insights -> render -> done                                          *)
(* over two data frames.  A data frame is a sequence of rows; a row is a   *)
(* record whose field idx is the pandas index label (the row's position in *)
(* the CSV file), kept by every selection, so "original row order" is the  *)
(* order of idx.                                                           *)
(*                                                                         *)
(* Numbers are fixed-point, in thousandths (100 USD is 100000), which      *)
(* makes the medians, the interpolated quartiles, 1.5 * IQR, * 0.5 and     *)
(* * 0.01 exact on the whole-number inputs explored.  A missing value      *)
(* (pandas NaN) is the marker NaN; comparisons with it are false and sums  *)
(* and medians skip it, as pandas does.                                    *)
(***************************************************************************)
EXTENDS Integers, Sequences, FiniteSets

VARIABLES
    pc,                   \* position in the script
    missing,              \* which of the data folder / CSV files is absent
    csv_ec2, csv_s3,      \* contents of the two CSV files (never written)
    df_ec2, df_s3,        \* the loaded frames, imputed in place by cleaning
    df_ec2_clean, df_s3_clean,
    ec2_regions, ec2_states, ec2_types, s3_regions, s3_classes,
    filtered_ec2, filtered_s3,
    top5_ec2, top5_s3,
    avg_cost_region, total_storage_region,
    underutilized_ec2, expensive_s3,
    total_savings_hr, total_savings_mo

vars == <<pc, missing, csv_ec2, csv_s3, df_ec2, df_s3, df_ec2_clean, df_s3_clean,
          ec2_regions, ec2_states, ec2_types, s3_regions, s3_classes,
          filtered_ec2, filtered_s3, top5_ec2, top5_s3,
          avg_cost_region, total_storage_region,
          underutilized_ec2, expensive_s3, total_savings_hr, total_savings_mo>>

----------------------------------------------------------------------------
(* Numbers *)

NaN == -1

Milli(x) == x * 1000

\* head(10) of both optimisation tables
TopK == 10

\* nlargest(5, ...)
TopN == 5

\* CPUUtilization < 20
CpuThreshold == Milli(20)

\* TotalSizeGB > 100
SizeThreshold == Milli(100)

----------------------------------------------------------------------------
(* Bounds of the explored inputs *)

\* longest frame built from the sample rows
MaxRows == 3

\* longest frame of the cost / size families (quartiles, top 5)
MaxCostRows == 6

\* length of the ramp frames (more rows than the tables keep)
MaxRamp == 11

----------------------------------------------------------------------------
(* Sequence helpers *)

Range(s) == {s[i] : i \in DOMAIN s}

RECURSIVE SeqSum(_)
SeqSum(s) == IF s = <<>> THEN 0 ELSE Head(s) + SeqSum(Tail(s))

\* s with x put after the last element <= x: s ascending stays ascending
RECURSIVE InsertAsc(_, _)
InsertAsc(s, x) ==
    IF s = <<>> THEN <<x>>
    ELSE IF x < Head(s) THEN <<x>> \o s
    ELSE <<Head(s)>> \o InsertAsc(Tail(s), x)

RECURSIVE SortAsc(_)
SortAsc(s) == IF s = <<>> THEN <<>> ELSE InsertAsc(SortAsc(SubSeq(s, 1, Len(s) - 1)), s[Len(s)])

\* DataFrame.head(n): the first n rows
head(df, n) == SubSeq(df, 1, IF Len(df) < n THEN Len(df) ELSE n)

----------------------------------------------------------------------------
(* pandas column operations *)

\* the non-missing values of a column, in row order
Values(df, col) ==
    LET present == SelectSeq(df, LAMBDA r : r[col] # NaN)
    IN  [i \in DOMAIN present |-> present[i][col]]

\* Series.unique(): the distinct values of a categorical column
unique(df, col) == {df[i][col] : i \in DOMAIN df}

\* Series.median(): NaN over no values, the middle value, or the mean of the
\* two middle values
median(df, col) ==
    LET s == SortAsc(Values(df, col))
        n == Len(s)
    IN  IF n = 0 THEN NaN
        ELSE IF n % 2 = 1 THEN s[(n + 1) \div 2]
        ELSE (s[n \div 2] + s[n \div 2 + 1]) \div 2

\* Series.fillna(v): v in place of every missing value (a no-op when v is NaN)
fillna(df, col, v) ==
    [i \in DOMAIN df |-> IF df[i][col] = NaN THEN [df[i] EXCEPT ![col] = v] ELSE df[i]]

\* Series.quantile(q4 / 4), linear interpolation between the closest ranks:
\* position q * (n - 1) in the sorted values, counted from 0
quantile(df, col, q4) ==
    LET s    == SortAsc(Values(df, col))
        n    == Len(s)
        pos4 == q4 * (n - 1)
        lo   == pos4 \div 4 + 1
        hi   == IF pos4 % 4 = 0 THEN lo ELSE lo + 1
    IN  IF n = 0 THEN NaN
        ELSE s[lo] + ((s[hi] - s[lo]) * (pos4 % 4)) \div 4

\* remove_outliers with the fences at 0.5 IQR instead of 1.5 IQR
remove_outliers_half(df, col) ==
    LET Q1    == quantile(df, col, 1)
        Q3    == quantile(df, col, 3)
        IQR   == Q3 - Q1
        lower == Q1 - IQR \div 2
        upper == Q3 + IQR \div 2
    IN  IF Q1 = NaN THEN <<>>
        ELSE SelectSeq(df, LAMBDA r : r[col] # NaN /\ r[col] >= lower /\ r[col] <= upper)

\* remove_outliers(df, col): the rows inside [Q1 - 1.5 IQR, Q3 + 1.5 IQR];
\* over no values the quartiles are NaN and every comparison is false
remove_outliers(df, col) ==
    LET Q1    == quantile(df, col, 1)
        Q3    == quantile(df, col, 3)
        IQR   == Q3 - Q1
        lower == Q1 - (3 * IQR) \div 2
        upper == Q3 + (3 * IQR) \div 2
    IN  IF Q1 = NaN THEN <<>>
        ELSE SelectSeq(df, LAMBDA r : r[col] # NaN /\ r[col] >= lower /\ r[col] <= upper)

\* Series.isin(values)
isin(v, values) == v \in values

\* the descending orders sort_values(col, ascending=False) can return: the
\* default quicksort is not stable, so rows of equal value come in any order
RECURSIVE DescOrders(_, _, _)
DescOrders(df, col, S) ==
    IF S = {} THEN {<<>>}
    ELSE UNION { { <<df[i]>> \o t : t \in DescOrders(df, col, S \ {i}) } :
                 i \in {j \in S : \A k \in S : df[k][col] <= df[j][col]} }

sort_values_desc(df, col) == DescOrders(df, col, DOMAIN df)

\* DataFrame.nlargest(n, col), keep='first': the n largest values, largest
\* first, rows of equal value in their original order (the script ranks
\* CostUSD and TotalSizeGB, which hold no missing value once filled with 0)
RECURSIVE InsertDesc(_, _, _)
InsertDesc(s, r, col) ==
    IF s = <<>> THEN <<r>>
    ELSE IF r[col] > Head(s)[col] THEN <<r>> \o s
    ELSE <<Head(s)>> \o InsertDesc(Tail(s), r, col)

RECURSIVE StableDesc(_, _)
StableDesc(df, col) ==
    IF df = <<>> THEN <<>>
    ELSE InsertDesc(StableDesc(SubSeq(df, 1, Len(df) - 1), col), df[Len(df)], col)

\* nlargest that prefers the last of the rows of equal value (keep='last')
RECURSIVE InsertDescLast(_, _, _)
InsertDescLast(s, r, col) ==
    IF s = <<>> THEN <<r>>
    ELSE IF r[col] >= Head(s)[col] THEN <<r>> \o s
    ELSE <<Head(s)>> \o InsertDescLast(Tail(s), r, col)

RECURSIVE LastDesc(_, _)
LastDesc(df, col) ==
    IF df = <<>> THEN <<>>
    ELSE InsertDescLast(LastDesc(SubSeq(df, 1, Len(df) - 1), col), df[Len(df)], col)

nlargest_keep_last(df, n, col) == head(LastDesc(df, col), n)

nlargest(df, n, col) == head(StableDesc(df, col), n)

\* groupby(key)[col]: for every key present, the sum and the number of the
\* non-missing values (mean = sum / count)
groupby(df, key, col) ==
    [g \in unique(df, key) |->
        LET vs == Values(SelectSeq(df, LAMBDA r : r[key] = g), col)
        IN  [sum |-> SeqSum(vs), count |-> Len(vs)]]

\* Series.sum(): the sum of the non-missing values
colsum(df, col) == SeqSum(Values(df, col))

----------------------------------------------------------------------------
(* The script's selections (lines 85-122) *)

\* FilterEc2 without the special case of an empty instance-type selection
FilterEc2_NoTypeDefault(df, regions, states, types) ==
    SelectSeq(df, LAMBDA r :
        /\ isin(r.Region, regions)
        /\ isin(r.State, states)
        /\ isin(r.InstanceType, types))

\* lines 85-89: the compute rows passing the three sidebar selections; an
\* empty instance-type selection is replaced by True
FilterEc2(df, regions, states, types) ==
    SelectSeq(df, LAMBDA r :
        /\ isin(r.Region, regions)
        /\ isin(r.State, states)
        /\ (IF types # {} THEN isin(r.InstanceType, types) ELSE TRUE))

\* FilterS3 with the two predicates joined by "or"
FilterS3_Or(df, regions, classes) ==
    SelectSeq(df, LAMBDA r :
        \/ isin(r.Region, regions)
        \/ (IF classes # {} THEN isin(r.StorageClass, classes) ELSE TRUE))

\* lines 91-94: the storage rows passing the two sidebar selections
FilterS3(df, regions, classes) ==
    SelectSeq(df, LAMBDA r :
        /\ isin(r.Region, regions)
        /\ (IF classes # {} THEN isin(r.StorageClass, classes) ELSE TRUE))

\* the columns of a compute row plus SavingsPerHour = CostUSD * 0.5
WithSavingsPerHour(sel) ==
    [i \in DOMAIN sel |->
            [idx |-> sel[i].idx, InstanceType |-> sel[i].InstanceType,
             Region |-> sel[i].Region, State |-> sel[i].State,
             CPUUtilization |-> sel[i].CPUUtilization,
             MemoryUtilization |-> sel[i].MemoryUtilization,
             CostUSD |-> sel[i].CostUSD,
             SavingsPerHour |-> IF sel[i].CostUSD = NaN THEN NaN
                                ELSE (sel[i].CostUSD * 5) \div 10]]

\* Underutilized with CPUUtilization <= 20
Underutilized_Le(view) ==
    WithSavingsPerHour(SelectSeq(view, LAMBDA r :
        /\ r.CPUUtilization # NaN
        /\ r.CPUUtilization <= CpuThreshold
        /\ r.State = "running"))

\* lines 109-113: running instances under 20% CPU, with SavingsPerHour
Underutilized(view) ==
    WithSavingsPerHour(SelectSeq(view, LAMBDA r :
        /\ r.CPUUtilization # NaN
        /\ r.CPUUtilization < CpuThreshold
        /\ r.State = "running"))

\* the columns of a storage row plus MonthlySavings = TotalSizeGB * 0.01
WithMonthlySavings(sel) ==
    [i \in DOMAIN sel |->
            [idx |-> sel[i].idx, Region |-> sel[i].Region,
             StorageClass |-> sel[i].StorageClass,
             TotalSizeGB |-> sel[i].TotalSizeGB, CostUSD |-> sel[i].CostUSD,
             MonthlySavings |-> IF sel[i].TotalSizeGB = NaN THEN NaN
                                ELSE sel[i].TotalSizeGB \div 100]]

\* Oversized with TotalSizeGB >= 100
Oversized_Ge(view) ==
    WithMonthlySavings(SelectSeq(view, LAMBDA r :
        /\ r.StorageClass = "STANDARD"
        /\ r.TotalSizeGB # NaN
        /\ r.TotalSizeGB >= SizeThreshold))

\* lines 117-121: STANDARD buckets over 100 GB, with MonthlySavings
Oversized(view) ==
    WithMonthlySavings(SelectSeq(view, LAMBDA r :
        /\ r.StorageClass = "STANDARD"
        /\ r.TotalSizeGB # NaN
        /\ r.TotalSizeGB > SizeThreshold))

----------------------------------------------------------------------------
(* The CSV files explored *)

Ec2Row(type, region, state, cpu, mem, cost) ==
    [InstanceType |-> type, Region |-> region, State |-> state,
     CPUUtilization |-> cpu, MemoryUtilization |-> mem, CostUSD |-> cost]

S3Row(region, class, size, cost) ==
    [Region |-> region, StorageClass |-> class, TotalSizeGB |-> size, CostUSD |-> cost]

\* read_csv numbers the rows 0, 1, ... : the index label idx
Indexed(rows) ==
    [i \in DOMAIN rows |->
        [f \in DOMAIN rows[i] \cup {"idx"} |-> IF f = "idx" THEN i - 1 ELSE rows[i][f]]]

RowA == Ec2Row("t3", "us-east", "running", Milli(10), Milli(40), Milli(100))
RowB == Ec2Row("m5", "us-east", "running", Milli(50), NaN, Milli(80))
RowC == Ec2Row("t3", "us-west", "stopped", Milli(5), Milli(60), Milli(40))
RowD == Ec2Row("m5", "us-west", "running", Milli(20), Milli(30), NaN)
RowE == Ec2Row("t3", "us-east", "running", NaN, NaN, NaN)

Ec2Samples == {RowA, RowB, RowC, RowD, RowE}

RowX == S3Row("us-east", "STANDARD", Milli(150), Milli(10))
RowY == S3Row("us-east", "STANDARD", Milli(50), Milli(5))
RowZ == S3Row("us-west", "GLACIER", Milli(500), Milli(20))
RowW == S3Row("us-west", "STANDARD", Milli(100), NaN)
RowV == S3Row("us-east", "STANDARD_IA", NaN, NaN)

S3Samples == {RowX, RowY, RowZ, RowW, RowV}

SeqsUpTo(S, n) == UNION {[1..k -> S] : k \in 0..n}

\* frames of sample rows: every mix of categories, thresholds and missing cells
Ec2SampleFrames == SeqsUpTo(Ec2Samples, MaxRows)
S3SampleFrames  == SeqsUpTo(S3Samples, MaxRows)

\* frames differing in cost (size) only, long enough for the quartiles to
\* move and for the top 5 to leave rows out, with equal values
CostLevels == {0, Milli(1), Milli(3)}

Ec2CostFrames ==
    { [i \in DOMAIN c |-> Ec2Row("t3", "us-east", "running", Milli(50), Milli(40), c[i])] :
      c \in SeqsUpTo(CostLevels, MaxCostRows) }

S3SizeFrames ==
    { [i \in DOMAIN c |-> S3Row("us-east", "GLACIER", c[i], Milli(1))] :
      c \in SeqsUpTo(CostLevels, MaxCostRows) }

\* frames of MaxRamp rows of distinct cost (size), each row either passing
\* the optimisation threshold or not
Ec2RampFrames ==
    { [i \in 1..MaxRamp |-> Ec2Row("t3", "us-east", "running", cpu[i], Milli(40), Milli(i))] :
      cpu \in [1..MaxRamp -> {Milli(10), Milli(50)}] }

S3RampFrames ==
    { [i \in 1..MaxRamp |-> S3Row("us-east", class[i], Milli(100 + i), Milli(1))] :
      class \in [1..MaxRamp -> {"STANDARD", "GLACIER"}] }

\* the pairs of files: the two pipelines share nothing, so one file varies
\* while the other is empty (a header line only), plus one pair of full files
Inputs ==
    ({Indexed(f) : f \in Ec2SampleFrames \cup Ec2CostFrames \cup Ec2RampFrames} \X {<<>>})
    \cup ({<<>>} \X {Indexed(f) : f \in S3SampleFrames \cup S3SizeFrames \cup S3RampFrames})
    \cup {<<Indexed(<<RowA, RowB, RowC>>), Indexed(<<RowX, RowY, RowZ>>)>>}

----------------------------------------------------------------------------
(* The script *)

Unset == <<>>

Init ==
    /\ pc = "load"
    /\ missing \in {"none", "folder", "ec2", "s3"}
    /\ \E in \in Inputs : csv_ec2 = in[1] /\ csv_s3 = in[2]
    /\ (missing # "none" => csv_ec2 = <<>> /\ csv_s3 = <<>>)
    /\ df_ec2 = Unset /\ df_s3 = Unset
    /\ df_ec2_clean = Unset /\ df_s3_clean = Unset
    /\ ec2_regions = {} /\ ec2_states = {} /\ ec2_types = {}
    /\ s3_regions = {} /\ s3_classes = {}
    /\ filtered_ec2 = Unset /\ filtered_s3 = Unset
    /\ top5_ec2 = Unset /\ top5_s3 = Unset
    /\ avg_cost_region = Unset /\ total_storage_region = Unset
    /\ underutilized_ec2 = Unset /\ expensive_s3 = Unset
    /\ total_savings_hr = NaN /\ total_savings_mo = NaN

\* lines 26-48: stop when the folder or a file is absent, else read both files
LoadStop ==
    /\ pc = "load" /\ missing # "none"
    /\ pc' = "stopped"
    /\ UNCHANGED <<missing, csv_ec2, csv_s3, df_ec2, df_s3, df_ec2_clean, df_s3_clean,
                   ec2_regions, ec2_states, ec2_types, s3_regions, s3_classes,
                   filtered_ec2, filtered_s3, top5_ec2, top5_s3,
                   avg_cost_region, total_storage_region,
                   underutilized_ec2, expensive_s3, total_savings_hr, total_savings_mo>>

Load ==
    /\ pc = "load" /\ missing = "none"
    /\ df_ec2' = csv_ec2
    /\ df_s3' = csv_s3
    /\ pc' = "clean"
    /\ UNCHANGED <<missing, csv_ec2, csv_s3, df_ec2_clean, df_s3_clean,
                   ec2_regions, ec2_states, ec2_types, s3_regions, s3_classes,
                   filtered_ec2, filtered_s3, top5_ec2, top5_s3,
                   avg_cost_region, total_storage_region,
                   underutilized_ec2, expensive_s3, total_savings_hr, total_savings_mo>>

\* lines 53-58: impute the utilisations with the column median, costs and
\* sizes with 0; each median is taken before its own column is filled
CleanEc2(df) ==
    LET a == fillna(df, "CPUUtilization", median(df, "CPUUtilization"))
        b == fillna(a, "MemoryUtilization", median(a, "MemoryUtilization"))
    IN  fillna(b, "CostUSD", 0)

CleanS3(df) == fillna(fillna(df, "CostUSD", 0), "TotalSizeGB", 0)

Clean ==
    /\ pc = "clean"
    /\ df_ec2' = CleanEc2(df_ec2)
    /\ df_s3' = CleanS3(df_s3)
    /\ pc' = "outliers"
    /\ UNCHANGED <<missing, csv_ec2, csv_s3, df_ec2_clean, df_s3_clean,
                   ec2_regions, ec2_states, ec2_types, s3_regions, s3_classes,
                   filtered_ec2, filtered_s3, top5_ec2, top5_s3,
                   avg_cost_region, total_storage_region,
                   underutilized_ec2, expensive_s3, total_savings_hr, total_savings_mo>>

\* lines 69-70
RemoveOutliers ==
    /\ pc = "outliers"
    /\ df_ec2_clean' = remove_outliers(df_ec2, "CostUSD")
    /\ df_s3_clean' = remove_outliers(df_s3, "TotalSizeGB")
    /\ pc' = "sidebar"
    /\ UNCHANGED <<missing, csv_ec2, csv_s3, df_ec2, df_s3,
                   ec2_regions, ec2_states, ec2_types, s3_regions, s3_classes,
                   filtered_ec2, filtered_s3, top5_ec2, top5_s3,
                   avg_cost_region, total_storage_region,
                   underutilized_ec2, expensive_s3, total_savings_hr, total_savings_mo>>

\* lines 77-82: each multiselect returns some of the values its column holds
Sidebar ==
    /\ pc = "sidebar"
    /\ ec2_regions' \in SUBSET unique(df_ec2, "Region")
    /\ ec2_states' \in SUBSET unique(df_ec2, "State")
    /\ ec2_types' \in SUBSET unique(df_ec2, "InstanceType")
    /\ s3_regions' \in SUBSET unique(df_s3, "Region")
    /\ s3_classes' \in SUBSET unique(df_s3, "StorageClass")
    /\ pc' = "filter"
    /\ UNCHANGED <<missing, csv_ec2, csv_s3, df_ec2, df_s3, df_ec2_clean, df_s3_clean,
                   filtered_ec2, filtered_s3, top5_ec2, top5_s3,
                   avg_cost_region, total_storage_region,
                   underutilized_ec2, expensive_s3, total_savings_hr, total_savings_mo>>

\* lines 85-94
ApplyFilters ==
    /\ pc = "filter"
    /\ filtered_ec2' = FilterEc2(df_ec2, ec2_regions, ec2_states, ec2_types)
    /\ filtered_s3' = FilterS3(df_s3, s3_regions, s3_classes)
    /\ pc' = "compute"
    /\ UNCHANGED <<missing, csv_ec2, csv_s3, df_ec2, df_s3, df_ec2_clean, df_s3_clean,
                   ec2_regions, ec2_states, ec2_types, s3_regions, s3_classes,
                   top5_ec2, top5_s3, avg_cost_region, total_storage_region,
                   underutilized_ec2, expensive_s3, total_savings_hr, total_savings_mo>>

\* lines 99-103
Top5(view, col) == nlargest(view, TopN, col)

Computations ==
    /\ pc = "compute"
    /\ top5_ec2' = Top5(filtered_ec2, "CostUSD")
    /\ top5_s3' = Top5(filtered_s3, "TotalSizeGB")
    /\ avg_cost_region' = groupby(filtered_ec2, "Region", "CostUSD")
    /\ total_storage_region' = groupby(filtered_s3, "Region", "TotalSizeGB")
    /\ pc' = "insights"
    /\ UNCHANGED <<missing, csv_ec2, csv_s3, df_ec2, df_s3, df_ec2_clean, df_s3_clean,
                   ec2_regions, ec2_states, ec2_types, s3_regions, s3_classes,
                   filtered_ec2, filtered_s3,
                   underutilized_ec2, expensive_s3, total_savings_hr, total_savings_mo>>

\* lines 109-122: select, add the savings column, sort descending, keep 10
Insights ==
    /\ pc = "insights"
    /\ \E sorted \in sort_values_desc(Underutilized(filtered_ec2), "SavingsPerHour") :
           underutilized_ec2' = head(sorted, TopK)
    /\ \E sorted \in sort_values_desc(Oversized(filtered_s3), "MonthlySavings") :
           expensive_s3' = head(sorted, TopK)
    /\ pc' = "render"
    /\ UNCHANGED <<missing, csv_ec2, csv_s3, df_ec2, df_s3, df_ec2_clean, df_s3_clean,
                   ec2_regions, ec2_states, ec2_types, s3_regions, s3_classes,
                   filtered_ec2, filtered_s3, top5_ec2, top5_s3,
                   avg_cost_region, total_storage_region,
                   total_savings_hr, total_savings_mo>>

\* lines 216-218 and 233-235: the headline totals, computed only for a
\* table that is not empty
HeadlineTotal(table, col) == IF table = <<>> THEN NaN ELSE colsum(table, col)

Render ==
    /\ pc = "render"
    /\ total_savings_hr' = HeadlineTotal(underutilized_ec2, "SavingsPerHour")
    /\ total_savings_mo' = HeadlineTotal(expensive_s3, "MonthlySavings")
    /\ pc' = "done"
    /\ UNCHANGED <<missing, csv_ec2, csv_s3, df_ec2, df_s3, df_ec2_clean, df_s3_clean,
                   ec2_regions, ec2_states, ec2_types, s3_regions, s3_classes,
                   filtered_ec2, filtered_s3, top5_ec2, top5_s3,
                   avg_cost_region, total_storage_region,
                   underutilized_ec2, expensive_s3>>

Next ==
    \/ LoadStop
    \/ Load
    \/ Clean
    \/ RemoveOutliers
    \/ Sidebar
    \/ ApplyFilters
    \/ Computations
    \/ Insights
    \/ Render

Spec == Init /\ [][Next]_vars

----------------------------------------------------------------------------
(* Stages reached *)

Cleaned  == pc \in {"outliers", "sidebar", "filter", "compute", "insights", "render", "done"}
Filtered == pc \in {"compute", "insights", "render", "done"}
Advised  == pc \in {"render", "done"}

Min(a, b) == IF a < b THEN a ELSE b

\* s lists rows of df in df's order, without repetition
SubFrame(s, df) ==
    /\ \A i \in DOMAIN s : \E j \in DOMAIN df : s[i] = df[j]
    /\ \A i, j \in DOMAIN s : i < j => s[i].idx < s[j].idx

\* the rows an optimisation heuristic selects, stated on the view
LowCpuRunning(r) == r.CPUUtilization # NaN /\ r.CPUUtilization < Milli(20) /\ r.State = "running"
BigStandard(r)   == r.TotalSizeGB # NaN /\ r.TotalSizeGB > Milli(100) /\ r.StorageClass = "STANDARD"

QualifyingEc2 == {i \in DOMAIN filtered_ec2 : LowCpuRunning(filtered_ec2[i])}
QualifyingS3  == {i \in DOMAIN filtered_s3 : BigStandard(filtered_s3[i])}

\* the savings of every qualifying row of the view, not only of the rows shown
AllSavingsHr ==
    SeqSum([i \in DOMAIN filtered_ec2 |->
               IF i \in QualifyingEc2 THEN filtered_ec2[i].CostUSD \div 2 ELSE 0])

AllSavingsMo ==
    SeqSum([i \in DOMAIN filtered_s3 |->
               IF i \in QualifyingS3 THEN filtered_s3[i].TotalSizeGB \div 100 ELSE 0])

----------------------------------------------------------------------------
(* C1: each headline total is the sum of the savings over all the rows of   *)
(* the filtered view that pass the heuristic's threshold, also when more    *)
(* than 10 rows pass; it is not the sum of the table cut to its top 10.     *)
C1_TotalOverAllQualifying ==
    pc = "done" =>
        /\ (QualifyingEc2 # {} => total_savings_hr = AllSavingsHr)
        /\ (QualifyingS3 # {} => total_savings_mo = AllSavingsMo)

(* C2: each headline total is at least the sum of the savings column of the *)
(* displayed top-10 table, and equals it exactly when at most 10 rows       *)
(* qualify.                                                                 *)
C2_TotalAtLeastTable ==
    pc = "done" =>
        /\ (QualifyingEc2 # {} =>
               /\ total_savings_hr >= colsum(underutilized_ec2, "SavingsPerHour")
               /\ (total_savings_hr = colsum(underutilized_ec2, "SavingsPerHour")
                      <=> Cardinality(QualifyingEc2) <= TopK))
        /\ (QualifyingS3 # {} =>
               /\ total_savings_mo >= colsum(expensive_s3, "MonthlySavings")
               /\ (total_savings_mo = colsum(expensive_s3, "MonthlySavings")
                      <=> Cardinality(QualifyingS3) <= TopK))

(* C3 as stated: outlier removal is idempotent, a second pass over the     *)
(* same column removes no further row (checked on the frames the script has *)
(* just trimmed).                                                           *)
C3_Idempotent ==
    pc = "sidebar" =>
        /\ remove_outliers(df_ec2_clean, "CostUSD") = df_ec2_clean
        /\ remove_outliers(df_s3_clean, "TotalSizeGB") = df_s3_clean

(* C3 as amended: a second pass returns rows of the first pass's result in  *)
(* the same order, and returns all of them when the frame has at most 4     *)
(* rows; on longer frames it can remove further rows.                       *)
C3_IdempotentUpTo4Rows ==
    pc = "sidebar" =>
        /\ SubFrame(remove_outliers(df_ec2_clean, "CostUSD"), df_ec2_clean)
        /\ SubFrame(remove_outliers(df_s3_clean, "TotalSizeGB"), df_s3_clean)
        /\ (Len(df_ec2) <= 4 => remove_outliers(df_ec2_clean, "CostUSD") = df_ec2_clean)
        /\ (Len(df_s3) <= 4 => remove_outliers(df_s3_clean, "TotalSizeGB") = df_s3_clean)

\* a frame of at most 4 rows whose first pass removed a row
C3_Witness ==
    /\ pc = "sidebar"
    /\ Len(df_ec2) <= 4
    /\ Len(df_ec2_clean) < Len(df_ec2)
    /\ remove_outliers(df_ec2_clean, "CostUSD") = df_ec2_clean

\* every value of the column is missing (also: the file has no rows)
AllMissing(df, col) == \A i \in DOMAIN df : df[i][col] = NaN

(* C4: when a designated column (CPU or memory utilisation for the median,  *)
(* the column handed to outlier removal) is entirely missing or empty, the  *)
(* cleaner signals an error at once: the run stops and never goes on with   *)
(* the column still missing.                                                *)
C4_ErrorOnEmptyColumn ==
    (missing = "none" /\
       (\/ AllMissing(csv_ec2, "CPUUtilization")
        \/ AllMissing(csv_ec2, "MemoryUtilization")
        \/ csv_ec2 = <<>>
        \/ csv_s3 = <<>>))
    => pc \in {"load", "clean", "stopped"}

\* the one value of a column that is missing in every row but one
OnlyValue(df, col) == Values(df, col)[1]

(* C5: after cleaning no row has a missing CPU utilisation, memory          *)
(* utilisation or cost (compute) or cost or size (storage); a utilisation   *)
(* missing in every row but one is filled with that one value, costs and    *)
(* sizes with 0; the frames keep their number of rows.                      *)
C5_NoMissingAfterCleaning ==
    Cleaned =>
        /\ Len(df_ec2) = Len(csv_ec2) /\ Len(df_s3) = Len(csv_s3)
        /\ \A i \in DOMAIN df_ec2 :
              /\ df_ec2[i].CPUUtilization # NaN
              /\ df_ec2[i].MemoryUtilization # NaN
              /\ df_ec2[i].CostUSD # NaN
              /\ (csv_ec2[i].CostUSD = NaN => df_ec2[i].CostUSD = 0)
              /\ (Len(Values(csv_ec2, "CPUUtilization")) = 1 =>
                     df_ec2[i].CPUUtilization = OnlyValue(csv_ec2, "CPUUtilization"))
              /\ (Len(Values(csv_ec2, "MemoryUtilization")) = 1 =>
                     df_ec2[i].MemoryUtilization = OnlyValue(csv_ec2, "MemoryUtilization"))
        /\ \A i \in DOMAIN df_s3 :
              /\ df_s3[i].CostUSD # NaN
              /\ df_s3[i].TotalSizeGB # NaN
              /\ (csv_s3[i].CostUSD = NaN => df_s3[i].CostUSD = 0)
              /\ (csv_s3[i].TotalSizeGB = NaN => df_s3[i].TotalSizeGB = 0)

(* C6: on a non-empty frame an empty region selection (or, for compute, an *)
(* empty state selection) returns no row, while an empty instance-type or   *)
(* storage-class selection does not restrict: every row passing the other   *)
(* selections is returned, whatever its instance type or storage class.     *)
C6_EmptySelections ==
    Filtered =>
        /\ (ec2_regions = {} \/ ec2_states = {} => filtered_ec2 = <<>>)
        /\ (s3_regions = {} => filtered_s3 = <<>>)
        /\ (ec2_types = {} =>
               \A i \in DOMAIN df_ec2 :
                   df_ec2[i].Region \in ec2_regions /\ df_ec2[i].State \in ec2_states
                       => df_ec2[i] \in Range(filtered_ec2))
        /\ (s3_classes = {} =>
               \A i \in DOMAIN df_s3 :
                   df_s3[i].Region \in s3_regions => df_s3[i] \in Range(filtered_s3))

\* no instance type selected and rows of two instance types returned, while
\* the empty region selection of the other frame returns none of its rows
C6_Witness ==
    /\ pc = "done"
    /\ ec2_types = {}
    /\ Cardinality(unique(filtered_ec2, "InstanceType")) > 1
    /\ s3_regions = {} /\ df_s3 # <<>> /\ filtered_s3 = <<>>

\* the frame still is the file's rows, in order, changed by imputation only
StillImputedInput(df, csv, cats, nums) ==
    /\ Len(df) = Len(csv)
    /\ \A i \in DOMAIN df :
          /\ df[i].idx = csv[i].idx
          /\ \A c \in cats : df[i][c] = csv[i][c]
          /\ \A c \in nums : csv[i][c] # NaN => df[i][c] = csv[i][c]

(* C7: the filtered view holds exactly the rows of the imputed frame that   *)
(* match all predicates (region selected, state selected, instance type     *)
(* selected or none selected; for storage region selected, class selected   *)
(* or none selected), in the frame's row order, and filtering leaves the    *)
(* frame as it was.                                                         *)
C7_FilteredExactly ==
    Filtered =>
        /\ \A i \in DOMAIN df_ec2 :
              df_ec2[i] \in Range(filtered_ec2) <=>
                  /\ df_ec2[i].Region \in ec2_regions
                  /\ df_ec2[i].State \in ec2_states
                  /\ (ec2_types = {} \/ df_ec2[i].InstanceType \in ec2_types)
        /\ \A i \in DOMAIN df_s3 :
              df_s3[i] \in Range(filtered_s3) <=>
                  /\ df_s3[i].Region \in s3_regions
                  /\ (s3_classes = {} \/ df_s3[i].StorageClass \in s3_classes)
        /\ SubFrame(filtered_ec2, df_ec2)
        /\ SubFrame(filtered_s3, df_s3)
        /\ StillImputedInput(df_ec2, csv_ec2, {"Region", "State", "InstanceType"},
                             {"CPUUtilization", "MemoryUtilization", "CostUSD"})
        /\ StillImputedInput(df_s3, csv_s3, {"Region", "StorageClass"},
                             {"TotalSizeGB", "CostUSD"})

\* both frames filtered down to some, not all, of their rows, with every
\* kind of selection in use
C7_Witness ==
    /\ pc = "done"
    /\ ec2_types # {} /\ s3_classes # {}
    /\ filtered_ec2 # <<>> /\ Len(filtered_ec2) < Len(df_ec2)
    /\ filtered_s3 # <<>> /\ Len(filtered_s3) < Len(df_s3)

\* row t of a table is row i of the view, with every column of it
SameRow(t, r) == \A f \in DOMAIN r : t[f] = r[f]

\* the compute view of the worked example: A (cpu 10, running, cost 100),
\* B (cpu 50, running, cost 80), C (cpu 5, stopped, cost 40)
ExampleEc2 ==
    /\ Len(filtered_ec2) = 3
    /\ \A i \in 1..3 :
          <<filtered_ec2[i].CPUUtilization, filtered_ec2[i].State, filtered_ec2[i].CostUSD>>
              = << <<Milli(10), "running", Milli(100)>>,
                   <<Milli(50), "running", Milli(80)>>,
                   <<Milli(5), "stopped", Milli(40)>> >>[i]

(* C8: the underutilised table holds rows of the filtered compute view with *)
(* CPU utilisation < 20 (strict) and state "running" and no others, each    *)
(* with SavingsPerHour = CostUSD * 0.5; it holds the qualifying rows of     *)
(* largest savings, at most 10, largest first, and all of them when at most *)
(* 10 qualify.  For the example view A, B, C it is A alone, savings 50,     *)
(* total 50.                                                                *)
C8_UnderutilizedTable ==
    Advised =>
        /\ Len(underutilized_ec2) = Min(10, Cardinality(QualifyingEc2))
        /\ \A t \in DOMAIN underutilized_ec2 :
              /\ \E i \in QualifyingEc2 : SameRow(underutilized_ec2[t], filtered_ec2[i])
              /\ 2 * underutilized_ec2[t].SavingsPerHour = underutilized_ec2[t].CostUSD
        /\ \A t, u \in DOMAIN underutilized_ec2 :
              t < u => /\ underutilized_ec2[t].idx # underutilized_ec2[u].idx
                       /\ underutilized_ec2[t].SavingsPerHour >= underutilized_ec2[u].SavingsPerHour
        /\ \A i \in QualifyingEc2 :
              (\A t \in DOMAIN underutilized_ec2 : underutilized_ec2[t].idx # filtered_ec2[i].idx)
                  => \A t \in DOMAIN underutilized_ec2 :
                         2 * underutilized_ec2[t].SavingsPerHour >= filtered_ec2[i].CostUSD
        /\ (ExampleEc2 =>
               /\ Len(underutilized_ec2) = 1
               /\ underutilized_ec2[1].idx = filtered_ec2[1].idx
               /\ underutilized_ec2[1].SavingsPerHour = Milli(50)
               /\ (pc = "done" => total_savings_hr = Milli(50)))

\* the worked example, rendered
C8_Witness ==
    /\ pc = "done"
    /\ ExampleEc2
    /\ Len(underutilized_ec2) = 1
    /\ total_savings_hr = Milli(50)

\* the storage view of the worked example: X (STANDARD, 150 GB),
\* Y (STANDARD, 50 GB), Z (GLACIER, 500 GB)
ExampleS3 ==
    /\ Len(filtered_s3) = 3
    /\ \A i \in 1..3 :
          <<filtered_s3[i].StorageClass, filtered_s3[i].TotalSizeGB>>
              = << <<"STANDARD", Milli(150)>>,
                   <<"STANDARD", Milli(50)>>,
                   <<"GLACIER", Milli(500)>> >>[i]

(* C9: the oversized table holds rows of the filtered storage view of class *)
(* "STANDARD" with TotalSizeGB > 100 (strict: exactly 100 GB is left out)   *)
(* and no others, each with MonthlySavings = TotalSizeGB * 0.01; it holds   *)
(* the qualifying rows of largest savings, at most 10, largest first.  For  *)
(* the example view X, Y, Z it is X alone, savings 1.5, total 1.5.          *)
C9_OversizedTable ==
    Advised =>
        /\ Len(expensive_s3) = Min(10, Cardinality(QualifyingS3))
        /\ \A t \in DOMAIN expensive_s3 :
              /\ \E i \in QualifyingS3 : SameRow(expensive_s3[t], filtered_s3[i])
              /\ 100 * expensive_s3[t].MonthlySavings = expensive_s3[t].TotalSizeGB
        /\ \A t, u \in DOMAIN expensive_s3 :
              t < u => /\ expensive_s3[t].idx # expensive_s3[u].idx
                       /\ expensive_s3[t].MonthlySavings >= expensive_s3[u].MonthlySavings
        /\ \A i \in QualifyingS3 :
              (\A t \in DOMAIN expensive_s3 : expensive_s3[t].idx # filtered_s3[i].idx)
                  => \A t \in DOMAIN expensive_s3 :
                         100 * expensive_s3[t].MonthlySavings >= filtered_s3[i].TotalSizeGB
        /\ \A i \in DOMAIN filtered_s3 :
              filtered_s3[i].TotalSizeGB = Milli(100) =>
                  \A t \in DOMAIN expensive_s3 : expensive_s3[t].idx # filtered_s3[i].idx
        /\ (ExampleS3 =>
               /\ Len(expensive_s3) = 1
               /\ expensive_s3[1].idx = filtered_s3[1].idx
               /\ expensive_s3[1].MonthlySavings = 1500
               /\ (pc = "done" => total_savings_mo = 1500))

\* the worked example, rendered
C9_Witness ==
    /\ pc = "done"
    /\ ExampleS3
    /\ Len(expensive_s3) = 1
    /\ total_savings_mo = 1500

Ranked == pc \in {"insights", "render", "done"}

\* row t ranks before row r: a larger value, or the same value and earlier
\* in the file
RanksBefore(t, r, col) == t[col] > r[col] \/ (t[col] = r[col] /\ t.idx < r.idx)

TopOf(top, view, col) ==
    /\ Len(top) <= 5
    /\ Len(top) = Min(5, Len(view))
    /\ \A t \in DOMAIN top : top[t] \in Range(view)
    /\ \A t, u \in DOMAIN top : t < u => RanksBefore(top[t], top[u], col)
    /\ \A i \in DOMAIN view :
          view[i] \notin Range(top) =>
              \A t \in DOMAIN top : /\ top[t][col] >= view[i][col]
                                    /\ RanksBefore(top[t], view[i], col)

(* C10: the top-5 rankings (compute by CostUSD, storage by TotalSizeGB,     *)
(* over the filtered views) return min(5, size of the view) rows, all rows  *)
(* of the view, each with a value >= that of every row left out, and rows   *)
(* of equal value are taken and listed in their original order.             *)
C10_TopFive ==
    Ranked =>
        /\ TopOf(top5_ec2, filtered_ec2, "CostUSD")
        /\ TopOf(top5_s3, filtered_s3, "TotalSizeGB")

\* more than 5 rows in the view, and a row left out that has the same value
\* as a row returned
C10_Witness ==
    /\ pc = "done"
    /\ Len(filtered_ec2) > 5
    /\ \E i \in DOMAIN filtered_ec2 :
          /\ filtered_ec2[i] \notin Range(top5_ec2)
          /\ \E t \in DOMAIN top5_ec2 : top5_ec2[t].CostUSD = filtered_ec2[i].CostUSD

====
